---------------------------- MODULE Spec2Model ----------------------------
(***************************************************************************)
(* A model of src/index.js: the Storage class (has, remove, get, set) over *)
(* the two Web Storage backends, and the useSessionStorage/useLocalStorage *)
(* bindings.                                                               *)
(*                                                                         *)
(* JavaScript strings are TLA+ strings (TLC evaluates Len, \o and SubSeq   *)
(* on them).  Every other JavaScript value is a record whose field t is    *)
(* its kind.  A thrown exception is the record [t |-> "throw", ...].       *)
(***************************************************************************)
EXTENDS Integers, Sequences, FiniteSets, TLC

VARIABLES
    store,   \* store[b]: the content of backend b
    origin,  \* origin[b][k]: the last write to slot k of backend b
    last,    \* the last call made and what it returned
    views    \* the bindings made by useSessionStorage / useLocalStorage

vars == <<store, origin, last, views>>

---------------------------------------------------------------------------
(* Strings *)

\* The printable ASCII characters with codes 32 to 95, in code order.
ASCIILow ==
    " !\"#$%&'()*+,-./0123456789:;<=>?@ABCDEFGHIJKLMNOPQRSTUVWXYZ[\\]^_"

\* The printable ASCII characters with codes 97 to 126, in code order.
ASCIIHigh == "abcdefghijklmnopqrstuvwxyz{|}~"

\* s.charAt(i - 1): the i-th character (1-based), "" out of range.
CharAt(s, i) == IF i >= 1 /\ i <= Len(s) THEN SubSeq(s, i, i) ELSE ""

\* s.substring(from) with a 0-based offset.
substringFrom(s, from) ==
    IF from >= Len(s) THEN "" ELSE SubSeq(s, from + 1, Len(s))

\* s.substring(from, to) with 0-based offsets, from <= to.
substring(s, from, to) ==
    IF from >= Len(s) THEN ""
    ELSE SubSeq(s, from + 1, IF to <= Len(s) THEN to ELSE Len(s))

\* The code unit of a one-character string.
CodeOf(c) ==
    IF \E i \in 1..Len(ASCIILow) : CharAt(ASCIILow, i) = c
    THEN 31 + (CHOOSE i \in 1..Len(ASCIILow) : CharAt(ASCIILow, i) = c)
    ELSE 96 + (CHOOSE i \in 1..Len(ASCIIHigh) : CharAt(ASCIIHigh, i) = c)

IsDigit(c) == c /= "" /\ \E i \in 1..10 : CharAt("0123456789", i) = c

DigitVal(c) == (CHOOSE i \in 1..10 : CharAt("0123456789", i) = c) - 1

IsHexDigit(c) ==
    c /= "" /\ \E i \in 1..22 : CharAt("0123456789abcdefABCDEF", i) = c

HexVal(c) ==
    LET i == CHOOSE j \in 1..22 : CharAt("0123456789abcdefABCDEF", j) = c
    IN  IF i <= 16 THEN i - 1 ELSE i - 7

\* Every character of s, from position i on, satisfies IsDigit.
RECURSIVE AllDigitsFrom(_, _)
AllDigitsFrom(s, i) ==
    IF i > Len(s) THEN TRUE
    ELSE IsDigit(CharAt(s, i)) /\ AllDigitsFrom(s, i + 1)

\* The value of the digit string s[i..], read left to right from acc.
RECURSIVE DigitsValue(_, _, _)
DigitsValue(s, i, acc) ==
    IF i > Len(s) THEN acc
    ELSE DigitsValue(s, i + 1, 10 * acc + DigitVal(CharAt(s, i)))

\* The decimal digits of a natural number.
RECURSIVE NatToString(_)
NatToString(n) ==
    IF n < 10 THEN CharAt("0123456789", n + 1)
    ELSE NatToString(n \div 10) \o CharAt("0123456789", (n % 10) + 1)

\* n written with at least two digits.
Pad2(n) == IF n < 10 THEN "0" \o NatToString(n) ELSE NatToString(n)

\* n written with at least four digits.
Pad4(n) ==
    IF n < 10 THEN "000" \o NatToString(n)
    ELSE IF n < 100 THEN "00" \o NatToString(n)
    ELSE IF n < 1000 THEN "0" \o NatToString(n)
    ELSE NatToString(n)

---------------------------------------------------------------------------
(* JavaScript values *)

Undefined == [t |-> "undefined"]
Null      == [t |-> "null"]
Bool(b)   == [t |-> "boolean", b |-> b]
Str(s)    == [t |-> "string", s |-> s]
\* A number: cls is "fin" (the integer n), "nan", "inf" or "-inf".
Num(n)    == [t |-> "number", cls |-> "fin", n |-> n]
NaN       == [t |-> "number", cls |-> "nan", n |-> 0]
Infinity  == [t |-> "number", cls |-> "inf", n |-> 0]
NegInfinity == [t |-> "number", cls |-> "-inf", n |-> 0]
\* A Date: its time value is day days and ms milliseconds after the epoch.
DateOf(day, ms) == [t |-> "date", valid |-> TRUE, day |-> day, ms |-> ms]
InvalidDate == [t |-> "date", valid |-> FALSE, day |-> 0, ms |-> 0]
RegExpOf(source, flags) == [t |-> "regexp", source |-> source, flags |-> flags]
Function(text) == [t |-> "function", text |-> text]
Array(items) == [t |-> "array", items |-> items]
\* A plain object: its own property names in order, and their values.
Object(keys, vals) == [t |-> "object", keys |-> keys, vals |-> vals]
Throw(err) == [t |-> "throw", err |-> err]

IsThrow(r) == r.t = "throw"

\* ToBoolean: the test of `if ( value )`.
Truthy(v) ==
    CASE v.t = "undefined" -> FALSE
      [] v.t = "null"      -> FALSE
      [] v.t = "boolean"   -> v.b
      [] v.t = "number"    -> v.cls \in {"inf", "-inf"} \/ (v.cls = "fin" /\ v.n /= 0)
      [] v.t = "string"    -> v.s /= ""
      [] OTHER             -> TRUE

---------------------------------------------------------------------------
(* Number <-> String.  The modelled numbers are the integers, NaN and the  *)
(* two infinities; the modelled numeric strings hold no fraction, exponent *)
(* or radix prefix.                                                        *)

\* Number::toString, the conversion of `${value}` for a number.
NumberToString(v) ==
    CASE v.cls = "nan"  -> "NaN"
      [] v.cls = "inf"  -> "Infinity"
      [] v.cls = "-inf" -> "-Infinity"
      [] OTHER -> IF v.n < 0 THEN "-" \o NatToString(0 - v.n)
                  ELSE NatToString(v.n)

\* s without its leading and trailing spaces.
RECURSIVE TrimSpaces(_)
TrimSpaces(s) ==
    IF s = "" THEN ""
    ELSE IF CharAt(s, 1) = " " THEN TrimSpaces(substringFrom(s, 1))
    ELSE IF CharAt(s, Len(s)) = " " THEN TrimSpaces(substring(s, 0, Len(s) - 1))
    ELSE s

\* StringToNumber, the conversion of Number( source ).
StringToNumber(source) ==
    LET s    == TrimSpaces(source)
        sign == CharAt(s, 1)
        body == IF sign \in {"+", "-"} THEN substringFrom(s, 1) ELSE s
    IN  IF s = "" THEN Num(0)
        ELSE IF body = "Infinity"
             THEN (IF sign = "-" THEN NegInfinity ELSE Infinity)
        ELSE IF body /= "" /\ AllDigitsFrom(body, 1)
             THEN Num(IF sign = "-" THEN 0 - DigitsValue(body, 1, 0)
                      ELSE DigitsValue(body, 1, 0))
        ELSE NaN

---------------------------------------------------------------------------
(* Date <-> String.  A time value is a day number and the milliseconds of  *)
(* that day; only days from the epoch on are modelled.                     *)

DayNames == <<"Sun", "Mon", "Tue", "Wed", "Thu", "Fri", "Sat">>

MonthNames == <<"Jan", "Feb", "Mar", "Apr", "May", "Jun",
                "Jul", "Aug", "Sep", "Oct", "Nov", "Dec">>

MsPerSecond == 1000

\* WeekDay(t): 0 is Sunday; day 0 was a Thursday.
WeekDay(day) == (day + 4) % 7

\* YearFromTime, MonthFromTime and DateFromTime of a day number, as the
\* record [y, m, d] with m and d counted from 1.
CivilFromDays(day) ==
    LET z   == day + 719468
        era == z \div 146097
        doe == z - era * 146097
        yoe == (doe - doe \div 1460 + doe \div 36524 - doe \div 146096) \div 365
        doy == doe - (365 * yoe + yoe \div 4 - yoe \div 100)
        mp  == (5 * doy + 2) \div 153
        d   == doy - (153 * mp + 2) \div 5 + 1
        m   == IF mp < 10 THEN mp + 3 ELSE mp - 9
    IN  [y |-> yoe + era * 400 + (IF m <= 2 THEN 1 ELSE 0), m |-> m, d |-> d]

\* MakeDay: the day number of a calendar date.
DaysFromCivil(y, m, d) ==
    LET yy  == IF m <= 2 THEN y - 1 ELSE y
        era == yy \div 400
        yoe == yy - era * 400
        doy == (153 * (IF m > 2 THEN m - 3 ELSE m + 9) + 2) \div 5 + d - 1
        doe == yoe * 365 + yoe \div 4 - yoe \div 100 + doy
    IN  era * 146097 + doe - 719468

\* Date.prototype.toUTCString: "Thu, 01 Jan 1970 00:00:00 GMT".  The
\* milliseconds within the second are not part of the text.
toUTCString(value) ==
    IF ~value.valid THEN "Invalid Date"
    ELSE LET c   == CivilFromDays(value.day)
             sec == value.ms \div MsPerSecond
         IN  DayNames[WeekDay(value.day) + 1] \o ", " \o Pad2(c.d) \o " "
             \o MonthNames[c.m] \o " " \o Pad4(c.y) \o " "
             \o Pad2(sec \div 3600) \o ":" \o Pad2((sec \div 60) % 60) \o ":"
             \o Pad2(sec % 60) \o " GMT"

\* new Date( source ) for a string: the text toUTCString writes is parsed
\* to the second; any other modelled text gives an invalid Date.
DateFromString(source) ==
    LET dd  == substring(source, 5, 7)
        mon == substring(source, 8, 11)
        yr  == substring(source, 12, 16)
        hh  == substring(source, 17, 19)
        mi  == substring(source, 20, 22)
        ss  == substring(source, 23, 25)
        shaped ==
            /\ Len(source) = 29
            /\ substring(source, 3, 5) = ", "
            /\ CharAt(source, 8) = " " /\ CharAt(source, 12) = " "
            /\ CharAt(source, 17) = " " /\ CharAt(source, 20) = ":"
            /\ CharAt(source, 23) = ":" /\ substring(source, 25, 29) = " GMT"
            /\ \A f \in {dd, yr, hh, mi, ss} : AllDigitsFrom(f, 1)
            /\ \E m \in 1..12 : MonthNames[m] = mon
    IN  IF ~shaped THEN InvalidDate
        ELSE LET m == CHOOSE i \in 1..12 : MonthNames[i] = mon
                 d == DigitsValue(dd, 1, 0)
                 y == DigitsValue(yr, 1, 0)
                 h == DigitsValue(hh, 1, 0)
                 n == DigitsValue(mi, 1, 0)
                 s == DigitsValue(ss, 1, 0)
             IN  IF d < 1 \/ d > 31 \/ h > 23 \/ n > 59 \/ s > 59 \/ y < 1970
                 THEN InvalidDate
                 ELSE DateOf(DaysFromCivil(y, m, d),
                             (h * 3600 + n * 60 + s) * MsPerSecond)

---------------------------------------------------------------------------
(* JSON.  The modelled texts hold integers, strings whose only escapes are *)
(* \" and \\, true, false, null, arrays and objects, with spaces as the    *)
(* only white space; the modelled objects have distinct property names.    *)

\* The characters of s from position i on, with " and \ escaped.
RECURSIVE EscapeFrom(_, _)
EscapeFrom(s, i) ==
    IF i > Len(s) THEN ""
    ELSE LET c == CharAt(s, i)
         IN  (IF c = "\"" \/ c = "\\" THEN "\\" \o c ELSE c) \o EscapeFrom(s, i + 1)

\* QuoteJSONString.
QuoteJSONString(s) == "\"" \o EscapeFrom(s, 1) \o "\""

\* SerializeJSONProperty, SerializeJSONArray and SerializeJSONObject: the
\* text of a value, or "" for a value that has none (undefined, a function).
RECURSIVE JSONText(_)
RECURSIVE JSONArrayItems(_, _)
RECURSIVE JSONObjectMembers(_, _, _, _)
JSONText(v) ==
    CASE v.t = "null"    -> "null"
      [] v.t = "boolean" -> IF v.b THEN "true" ELSE "false"
      [] v.t = "number"  -> IF v.cls = "fin" THEN NumberToString(v) ELSE "null"
      [] v.t = "string"  -> QuoteJSONString(v.s)
      [] v.t = "array"   -> "[" \o JSONArrayItems(v.items, 1) \o "]"
      [] v.t = "object"  -> "{" \o JSONObjectMembers(v.keys, v.vals, 1, TRUE) \o "}"
      [] OTHER           -> ""

JSONArrayItems(items, i) ==
    IF i > Len(items) THEN ""
    ELSE LET text == JSONText(items[i])
         IN  (IF i > 1 THEN "," ELSE "")
             \o (IF text = "" THEN "null" ELSE text)
             \o JSONArrayItems(items, i + 1)

JSONObjectMembers(keys, vals, i, first) ==
    IF i > Len(keys) THEN ""
    ELSE LET text == JSONText(vals[i])
         IN  IF text = "" THEN JSONObjectMembers(keys, vals, i + 1, first)
             ELSE (IF first THEN "" ELSE ",")
                  \o QuoteJSONString(keys[i]) \o ":" \o text
                  \o JSONObjectMembers(keys, vals, i + 1, FALSE)

\* JSON.stringify( value ) for an object or array.
JSONstringify(value) == JSONText(value)

\* The result of a failed parse step.
NoParse == [ok |-> FALSE, v |-> Undefined, i |-> 0]

\* The first position from i on that holds no space.
RECURSIVE SkipSpaces(_, _)
SkipSpaces(s, i) == IF CharAt(s, i) = " " THEN SkipSpaces(s, i + 1) ELSE i

\* The first position from i on that holds no digit.
RECURSIVE SkipDigits(_, _)
SkipDigits(s, i) == IF IsDigit(CharAt(s, i)) THEN SkipDigits(s, i + 1) ELSE i

\* A JSON string whose opening quote is before position i: its characters
\* are collected in acc up to the closing quote.
RECURSIVE JSONStringAt(_, _, _)
JSONStringAt(s, i, acc) ==
    LET c == CharAt(s, i)
    IN  IF c = "" THEN NoParse
        ELSE IF c = "\"" THEN [ok |-> TRUE, v |-> Str(acc), i |-> i + 1]
        ELSE IF c = "\\"
             THEN (IF CharAt(s, i + 1) \in {"\"", "\\"}
                   THEN JSONStringAt(s, i + 2, acc \o CharAt(s, i + 1))
                   ELSE NoParse)
        ELSE JSONStringAt(s, i + 1, acc \o c)

\* A JSON number at position i: an optional minus sign, then 0 or digits
\* that do not start with 0.
JSONNumberAt(s, i) ==
    LET neg == CharAt(s, i) = "-"
        b   == IF neg THEN i + 1 ELSE i
        e   == SkipDigits(s, b)
    IN  IF e = b \/ (CharAt(s, b) = "0" /\ e > b + 1) THEN NoParse
        ELSE LET n == DigitsValue(substring(s, b - 1, e - 1), 1, 0)
             IN  [ok |-> TRUE, v |-> Num(IF neg THEN 0 - n ELSE n), i |-> e]

\* The JSON value that starts at position i, the elements of an array
\* after its "[" and the members of an object after its "{".
RECURSIVE JSONValueAt(_, _)
RECURSIVE JSONElementsAt(_, _, _)
RECURSIVE JSONMembersAt(_, _, _, _)
JSONValueAt(s, i0) ==
    LET i == SkipSpaces(s, i0)
        c == CharAt(s, i)
    IN  CASE c = "{"  -> JSONMembersAt(s, i + 1, <<>>, <<>>)
          [] c = "["  -> JSONElementsAt(s, i + 1, <<>>)
          [] c = "\"" -> JSONStringAt(s, i + 1, "")
          [] c = "-" \/ IsDigit(c) -> JSONNumberAt(s, i)
          [] c = "t"  -> IF substring(s, i - 1, i + 3) = "true"
                         THEN [ok |-> TRUE, v |-> Bool(TRUE), i |-> i + 4]
                         ELSE NoParse
          [] c = "f"  -> IF substring(s, i - 1, i + 4) = "false"
                         THEN [ok |-> TRUE, v |-> Bool(FALSE), i |-> i + 5]
                         ELSE NoParse
          [] c = "n"  -> IF substring(s, i - 1, i + 3) = "null"
                         THEN [ok |-> TRUE, v |-> Null, i |-> i + 4]
                         ELSE NoParse
          [] OTHER    -> NoParse

JSONElementsAt(s, i0, acc) ==
    LET i == SkipSpaces(s, i0)
    IN  IF acc = <<>> /\ CharAt(s, i) = "]"
        THEN [ok |-> TRUE, v |-> Array(acc), i |-> i + 1]
        ELSE LET r == JSONValueAt(s, i)
                 j == SkipSpaces(s, r.i)
             IN  IF ~r.ok THEN NoParse
                 ELSE IF CharAt(s, j) = ","
                      THEN JSONElementsAt(s, j + 1, Append(acc, r.v))
                 ELSE IF CharAt(s, j) = "]"
                      THEN [ok |-> TRUE, v |-> Array(Append(acc, r.v)), i |-> j + 1]
                 ELSE NoParse

JSONMembersAt(s, i0, keys, vals) ==
    LET i == SkipSpaces(s, i0)
    IN  IF keys = <<>> /\ CharAt(s, i) = "}"
        THEN [ok |-> TRUE, v |-> Object(keys, vals), i |-> i + 1]
        ELSE IF CharAt(s, i) /= "\"" THEN NoParse
        ELSE LET k == JSONStringAt(s, i + 1, "")
                 c == SkipSpaces(s, k.i)
             IN  IF ~k.ok \/ CharAt(s, c) /= ":" THEN NoParse
                 ELSE LET r == JSONValueAt(s, c + 1)
                          j == SkipSpaces(s, r.i)
                      IN  IF ~r.ok THEN NoParse
                          ELSE IF CharAt(s, j) = ","
                               THEN JSONMembersAt(s, j + 1, Append(keys, k.v.s),
                                                  Append(vals, r.v))
                          ELSE IF CharAt(s, j) = "}"
                               THEN [ok |-> TRUE,
                                     v |-> Object(Append(keys, k.v.s), Append(vals, r.v)),
                                     i |-> j + 1]
                          ELSE NoParse

\* JSON.parse( source ): the value, or the SyntaxError it throws.
JSONparse(source) ==
    LET r == JSONValueAt(source, 1)
    IN  IF r.ok /\ SkipSpaces(source, r.i) > Len(source) THEN r.v
        ELSE Throw("SyntaxError")

---------------------------------------------------------------------------
(* RegExp.  The modelled patterns are written with the characters of       *)
(* PatternAlphabet, and a backslash in them is followed by u, by a syntax  *)
(* character or by "-".  A pattern is checked as the constructor checks    *)
(* it: with the u flag (unicode TRUE) or, as new RegExp( source ) does,    *)
(* without it.                                                             *)

PatternAlphabet == "ab16u+*|.()[]{}-\\"

SyntaxCharacters == "^$\\.*+?()[]{}|/"

IsOneOf(c, chars) == c /= "" /\ \E i \in 1..Len(chars) : CharAt(chars, i) = c

\* Whether s[i..] is written in the modelled pattern language.
RECURSIVE IsModelledPatternFrom(_, _)
IsModelledPatternFrom(s, i) ==
    IF i > Len(s) THEN TRUE
    ELSE IF CharAt(s, i) = "\\"
         THEN /\ IsOneOf(CharAt(s, i + 1), SyntaxCharacters \o "-u")
              /\ IsModelledPatternFrom(s, i + 2)
    ELSE IsOneOf(CharAt(s, i), PatternAlphabet) /\ IsModelledPatternFrom(s, i + 1)

IsModelledPattern(s) == IsModelledPatternFrom(s, 1)

\* The first position from i on that holds no hexadecimal digit.
RECURSIVE SkipHexDigits(_, _)
SkipHexDigits(s, i) == IF IsHexDigit(CharAt(s, i)) THEN SkipHexDigits(s, i + 1) ELSE i

\* The value of the hexadecimal digits s[i..j-1], read from acc.
RECURSIVE HexValue(_, _, _, _)
HexValue(s, i, j, acc) ==
    IF i >= j THEN acc ELSE HexValue(s, i + 1, j, 16 * acc + HexVal(CharAt(s, i)))

NoAtom == [ok |-> FALSE, code |-> 0, i |-> 0]

\* The escape whose backslash is at position i: the character it denotes
\* and the position after it.  \uXXXX is a code unit in both modes;
\* \u{X...} is a code point with the u flag, and without it \u is the
\* letter u (an identity escape) and the braces are read on their own.
EscapeAt(s, i, unicode) ==
    LET e == CharAt(s, i + 1)
        h == SkipHexDigits(s, i + 3)
    IN  IF e = "" THEN NoAtom
        ELSE IF e = "u"
        THEN IF SkipHexDigits(s, i + 2) >= i + 6
             THEN [ok |-> TRUE, code |-> HexValue(s, i + 2, i + 6, 0), i |-> i + 6]
             ELSE IF ~unicode
             THEN [ok |-> TRUE, code |-> CodeOf("u"), i |-> i + 2]
             ELSE IF CharAt(s, i + 2) = "{" /\ h > i + 3 /\ CharAt(s, h) = "}"
             THEN [ok |-> TRUE, code |-> HexValue(s, i + 3, h, 0), i |-> h + 1]
             ELSE NoAtom
        ELSE [ok |-> TRUE, code |-> CodeOf(e), i |-> i + 2]

\* The class atom at position i.
ClassAtomAt(s, i, unicode) ==
    LET c == CharAt(s, i)
    IN  IF c = "" THEN NoAtom
        ELSE IF c = "\\" THEN EscapeAt(s, i, unicode)
        ELSE [ok |-> TRUE, code |-> CodeOf(c), i |-> i + 1]

\* The class ranges from position i up to the closing "]": the position
\* after it, or a failure for an unterminated class or a range out of order.
RECURSIVE ClassRangesAt(_, _, _)
ClassRangesAt(s, i, unicode) ==
    IF CharAt(s, i) = "]" THEN [ok |-> TRUE, code |-> 0, i |-> i + 1]
    ELSE LET a == ClassAtomAt(s, i, unicode)
         IN  IF ~a.ok THEN NoAtom
             ELSE IF CharAt(s, a.i) = "-" /\ CharAt(s, a.i + 1) \notin {"]", ""}
             THEN LET b == ClassAtomAt(s, a.i + 1, unicode)
                  IN  IF ~b.ok \/ a.code > b.code THEN NoAtom
                      ELSE ClassRangesAt(s, b.i, unicode)
             ELSE ClassRangesAt(s, a.i, unicode)

\* The position after a braced quantifier {digits} at position i, or 0.
BracedQuantifierEnd(s, i) ==
    LET e == SkipDigits(s, i + 1)
    IN  IF CharAt(s, i) = "{" /\ e > i + 1 /\ CharAt(s, e) = "}" THEN e + 1 ELSE 0

\* Whether s[i..] completes a pattern, inside depth open groups, where
\* quantifiable says that a quantifier may follow at position i.
RECURSIVE PatternOKFrom(_, _, _, _, _)
PatternOKFrom(s, i, unicode, depth, quantifiable) ==
    LET c == CharAt(s, i)
    IN  CASE c = ""   -> depth = 0
          [] c = "\\" -> LET a == EscapeAt(s, i, unicode)
                         IN  a.ok /\ PatternOKFrom(s, a.i, unicode, depth, TRUE)
          [] c = "("  -> PatternOKFrom(s, i + 1, unicode, depth + 1, FALSE)
          [] c = ")"  -> depth > 0 /\ PatternOKFrom(s, i + 1, unicode, depth - 1, TRUE)
          [] c = "|"  -> PatternOKFrom(s, i + 1, unicode, depth, FALSE)
          [] c = "["  -> LET r == ClassRangesAt(s, i + 1, unicode)
                         IN  r.ok /\ PatternOKFrom(s, r.i, unicode, depth, TRUE)
          [] c \in {"+", "*"} ->
                quantifiable /\ PatternOKFrom(s, i + 1, unicode, depth, FALSE)
          [] c = "{"  -> LET e == BracedQuantifierEnd(s, i)
                         IN  IF e > 0
                             THEN quantifiable /\ PatternOKFrom(s, e, unicode, depth, FALSE)
                             ELSE ~unicode /\ PatternOKFrom(s, i + 1, unicode, depth, TRUE)
          [] c \in {"]", "}"} ->
                ~unicode /\ PatternOKFrom(s, i + 1, unicode, depth, TRUE)
          [] OTHER    -> PatternOKFrom(s, i + 1, unicode, depth, TRUE)

\* Whether the pattern text is accepted with (unicode) or without the u flag.
RegExpSyntaxOK(source, unicode) == PatternOKFrom(source, 1, unicode, 0, FALSE)

\* new RegExp( source ): a pattern without flags, or the SyntaxError thrown
\* for a text that is no pattern.  The source property of the empty
\* pattern reads "(?:)".
NewRegExp(source) ==
    IF RegExpSyntaxOK(source, FALSE)
    THEN RegExpOf(IF source = "" THEN "(?:)" ELSE source, "")
    ELSE Throw("SyntaxError")

---------------------------------------------------------------------------
(* The backends: window.sessionStorage and window.localStorage.  A backend *)
(* is a function from the keys it holds to the strings stored under them.  *)

Backends == {"window.sessionStorage", "window.localStorage"}

EmptyStorage == [k \in {} |-> ""]

\* ToString of the value handed to setItem: a string is kept, and the
\* values encode leaves untagged become their names.
JSToString(value) ==
    CASE value.t = "string"    -> value.s
      [] value.t = "undefined" -> "undefined"
      [] value.t = "null"      -> "null"

\* storage.getItem( key ): the stored string, or null for a missing key.
getItem(storage, key) ==
    IF key \in DOMAIN storage THEN Str(storage[key]) ELSE Null

\* A faulty setItem: a key that is held keeps its first string.
setItem_keepFirst(storage, key, value) ==
    [k \in DOMAIN storage \cup {key} |->
        IF k \in DOMAIN storage THEN storage[k] ELSE JSToString(value)]

\* storage.setItem( key, value ): the storage afterwards.
setItem(storage, key, value) ==
    [k \in DOMAIN storage \cup {key} |->
        IF k = key THEN JSToString(value) ELSE storage[k]]

\* storage.removeItem( key ): the storage afterwards.
removeItem(storage, key) == [k \in DOMAIN storage \ {key} |-> storage[k]]

---------------------------------------------------------------------------
(* class Storage *)

\* The two exported instances, named by their storage_type.
Codecs == {"session", "local"}

\* constructor: the backend an instance of the given storage_type uses.
Storage(storage_type) ==
    IF storage_type = "session" THEN "window.sessionStorage"
    ELSE "window.localStorage"

\* The value has( key ) returns from what getItem gave.
hasResult(item) == Bool(item /= Undefined)

\* encode in set: the value handed to setItem.
encode(value) ==
    CASE value.t = "date"     -> Str("__date__|" \o toUTCString(value))
      [] value.t = "regexp"   -> Str("__expr__|" \o value.source)
      [] value.t = "number"   -> Str("__numb__|" \o NumberToString(value))
      [] value.t = "boolean"  -> Str("__bool__|" \o (IF value.b THEN "1" ELSE "0"))
      [] value.t = "string"   -> Str("__strn__|" \o value.s)
      [] value.t = "function" -> Str("__strn__|" \o value.text)
      [] value.t \in {"array", "object"} ->
                                 Str("__objt__|" \o JSONstringify(value))
      [] OTHER                -> value

\* value?.length || 0
LengthOrZero(value) == IF value.t = "string" THEN Len(value.s) ELSE 0

\* A faulty test: a record of exactly 10 characters is taken for short.
tooShort_offByOne(value) == LengthOrZero(value) <= 10

\* The test that ends decode with undefined.
tooShort(value) == LengthOrZero(value) < 10

\* A faulty case '__objt__': the parse failure is caught.
decodeObjt_caught(source) ==
    IF IsThrow(JSONparse(source)) THEN Undefined ELSE JSONparse(source)

\* case '__objt__' of decode.
decodeObjt(source) == JSONparse(source)

\* A faulty default: the payload is returned in place of the whole string.
decodeDefault_payload(value, source) == Str(source)

\* default of decode, for a value that starts with no known tag.
decodeDefault(value, source) == value

\* decode in get: the decoded value, or the exception thrown on the way.
decode(value) ==
    IF tooShort(value) THEN Undefined
    ELSE LET source == substringFrom(value.s, 9)
             tag    == substring(value.s, 0, 8)
         IN  CASE tag = "__date__" -> DateFromString(source)
               [] tag = "__expr__" -> NewRegExp(source)
               [] tag = "__numb__" -> StringToNumber(source)
               [] tag = "__bool__" -> Bool(source = "1")
               [] tag = "__strn__" -> Str(source)
               [] tag = "__objt__" -> decodeObjt(source)
               [] OTHER            -> decodeDefault(value, source)

\* A faulty get: the default is forgotten.
getResult_noDefault(item, default_value) == decode(item)

\* A faulty get: the default replaces undefined alone, not every falsy value.
getResult_definedCheck(item, default_value) ==
    LET value == decode(item)
    IN  IF value /= Undefined THEN value ELSE default_value

\* What get( key, default_value ) returns from what getItem gave.
getResult(item, default_value) ==
    LET value == decode(item)
    IN  IF IsThrow(value) THEN value
        ELSE IF Truthy(value) THEN value
        ELSE default_value

---------------------------------------------------------------------------
(* The inputs of the calls *)

Keys == {"k1", "k2"}

\* The falsy values set accepts.
FalsyValues == {Undefined, Null, Num(0), NaN, Bool(FALSE), Str("")}

\* Patterns, each valid under its own flags.
Patterns ==
    {p \in {RegExpOf("a+", "g"), RegExpOf("(a|b)*", ""), RegExpOf("[\\u{61}-b]", "u")} :
        IsModelledPattern(p.source) /\ RegExpSyntaxOK(p.source, IsOneOf("u", p.flags))}

Dates == {DateOf(0, 0), DateOf(0, 1500), DateOf(11016, 86399000)}

Structured ==
    {Array(<<>>), Array(<<Num(1), Str("a")>>),
     Object(<<"a", "b">>, <<Num(1), Array(<<Null, Bool(TRUE)>>)>>)}

\* The truthy values of the kinds set tags.
TruthyValues ==
    {Num(5), Num(-12), Infinity, Bool(TRUE),
     Str("a"), Str("hello"), Str("__numb__|5")}
    \cup Patterns \cup Dates \cup Structured
    \cup {InvalidDate, Function("x=>x")}

Values == FalsyValues \cup TruthyValues

\* The values of the calls that exercise the slots rather than the kinds.
CoreValues == {Undefined, Null, Num(0), Str("a")}

\* The default_value arguments.
Defaults == {Undefined, Num(-1), Str("D")}

\* The property names read from and assigned to a view.
Props == {"value", "other"}

\* The most slots the backends hold at once.
MaxItems == 3
\* The most bindings that exist at once.
MaxViews == 2

---------------------------------------------------------------------------
(* State *)

NoView == [by |-> "none", key |-> "", default_value |-> Undefined]

\* A call: op names it, view and prop are those of a call through a
\* binding, had tells whether the slot was held when the call started.
Call(op, codec, key, arg, result, had, view, prop) ==
    [op |-> op, codec |-> codec, key |-> key, arg |-> arg, result |-> result,
     had |-> had, view |-> view, prop |-> prop]

Written(w, v) == [w |-> w, v |-> v]

ItemCount == Cardinality(UNION {{<<b, k>> : k \in DOMAIN store[b]} : b \in Backends})

Init ==
    /\ store = [b \in Backends |-> EmptyStorage]
    /\ origin = [b \in Backends |-> [k \in Keys |-> Written("never", Undefined)]]
    /\ last = Call("none", "session", "", Undefined, Undefined, FALSE, NoView, "")
    /\ views = {}

---------------------------------------------------------------------------
(* The methods of Storage, called on the instance of storage_type c *)

has(c, key) ==
    LET storage == store[Storage(c)]
    IN  /\ last' = Call("has", c, key, Undefined, hasResult(getItem(storage, key)),
                        key \in DOMAIN storage, NoView, "")
        /\ UNCHANGED <<store, origin, views>>

remove(c, key) ==
    LET storage == store[Storage(c)]
    IN  /\ store' = [store EXCEPT ![Storage(c)] = removeItem(storage, key)]
        /\ origin' = [origin EXCEPT ![Storage(c)][key] =
                          Written("removed", Bool(key \in DOMAIN storage))]
        /\ last' = Call("remove", c, key, Undefined, Undefined,
                        key \in DOMAIN storage, NoView, "")
        /\ UNCHANGED views

get(c, key, default_value) ==
    LET storage == store[Storage(c)]
    IN  /\ last' = Call("get", c, key, default_value,
                        getResult(getItem(storage, key), default_value),
                        key \in DOMAIN storage, NoView, "")
        /\ UNCHANGED <<store, origin, views>>

\* cap bounds the slots held at once.
set(c, key, value, cap) ==
    LET storage == store[Storage(c)]
    IN  /\ key \in DOMAIN storage \/ ItemCount < cap
        /\ store' = [store EXCEPT ![Storage(c)] = setItem(storage, key, encode(value))]
        /\ origin' = [origin EXCEPT ![Storage(c)][key] = Written("set", value)]
        /\ last' = Call("set", c, key, value, Undefined,
                        key \in DOMAIN storage, NoView, "")
        /\ UNCHANGED views

Next ==
    \/ \E c \in Codecs, key \in Keys : has(c, key)
    \/ \E c \in Codecs, key \in Keys : remove(c, key)
    \/ \E c \in Codecs, key \in Keys, d \in Defaults : get(c, key, d)
    \/ \E c \in Codecs, key \in Keys, v \in CoreValues : set(c, key, v, MaxItems)

Spec == Init /\ [][Next]_vars

\* The same calls on one key, with a value of every kind.
ValueKeys == {"k1"}

NextValues ==
    \/ \E c \in Codecs, key \in ValueKeys : has(c, key)
    \/ \E c \in Codecs, key \in ValueKeys : remove(c, key)
    \/ \E c \in Codecs, key \in ValueKeys, d \in Defaults : get(c, key, d)
    \/ \E c \in Codecs, key \in ValueKeys, v \in Values : set(c, key, v, MaxItems)

SpecValues == Init /\ [][NextValues]_vars

---------------------------------------------------------------------------
(* Strings placed in a backend by other code of the page *)

\* Strings shorter than the 10 characters decode asks for.
ShortStrings ==
    {"", "x", "null", "undefined", "123456789", "__objt__",
     "__date__|", "__expr__|", "__numb__|", "__bool__|", "__strn__|", "__objt__|"}

\* A known tag, one character, and a payload.
TaggedStrings ==
    {"__date__|x", "__date__|Thu, 01 Jan 1970 00:00:01 GMT", "__date__|Invalid Date",
     "__expr__|a", "__expr__|(", "__expr__|+", "__expr__|[b-a]", "__expr__|(a|b)*",
     "__expr__|[\\u{61}-b]",
     "__numb__|0", "__numb__|7", "__numb__|-12", "__numb__| 12 ", "__numb__|abc",
     "__numb__X5",
     "__bool__|1", "__bool__|0", "__bool__|x", "__bool__|11",
     "__strn__|a", "__strn__|__objt__|{",
     "__objt__|1", "__objt__|0", "__objt__|{", "__objt__|x", "__objt__|null",
     "__objt__|\"\"", "__objt__|false",
     "__objt__|{\"a\":1}", "__objt__|{\"a\":1", "__objt__|[1,]", "__objt__| [1, \"a\"] ",
     "__objt__X{}", "__objt__{\"a\":1}"}

\* At least 10 characters that start with no known tag.
UntaggedStrings ==
    {"0123456789", "hello world", "__NUMB__|5", "__json__|{}", "_numb__|55",
     "__numb_|123", "{\"a\":1}xxx", " __numb__|5", "__object__|{}"}

RawStrings == ShortStrings \cup TaggedStrings \cup UntaggedStrings

\* window.sessionStorage.setItem( key, s ) or window.localStorage.setItem(
\* key, s ) by other code: c names the backend as the codec bound to it.
ExternalSetItem(c, key, s) ==
    LET storage == store[Storage(c)]
    IN  /\ key \in DOMAIN storage \/ ItemCount < MaxItems
        /\ store' = [store EXCEPT ![Storage(c)] = setItem(storage, key, Str(s))]
        /\ origin' = [origin EXCEPT ![Storage(c)][key] = Written("external", Str(s))]
        /\ last' = Call("setItem", c, key, Str(s), Undefined,
                        key \in DOMAIN storage, NoView, "")
        /\ UNCHANGED views

\* The key the strings are placed under.
RawKeys == {"k1"}

NextRaw ==
    \/ \E c \in Codecs, key \in RawKeys, s \in RawStrings : ExternalSetItem(c, key, s)
    \/ \E c \in Codecs, key \in RawKeys : has(c, key)
    \/ \E c \in Codecs, key \in RawKeys : remove(c, key)
    \/ \E c \in Codecs, key \in RawKeys, d \in Defaults : get(c, key, d)

SpecRaw == Init /\ [][NextRaw]_vars

---------------------------------------------------------------------------
(* useSessionStorage and useLocalStorage *)

\* The binding a use function returns: by names the function, target is
\* the object the proxy wraps.
View(by, key, default_value) ==
    [by |-> by, key |-> key, default_value |-> default_value,
     target |-> [value |-> default_value]]

\* The codec the closures of a binding call.
CodecOf(view) == IF view.by = "useSessionStorage" THEN "session" ELSE "local"

useSessionStorage(key, default_value) ==
    LET view == View("useSessionStorage", key, default_value)
    IN  /\ view \in views \/ Cardinality(views) < MaxViews
        /\ views' = views \cup {view}
        /\ last' = Call("useSessionStorage", "session", key, default_value, Undefined,
                        key \in DOMAIN store[Storage("session")], view, "")
        /\ UNCHANGED <<store, origin>>

useLocalStorage(key, default_value) ==
    LET view == View("useLocalStorage", key, default_value)
    IN  /\ view \in views \/ Cardinality(views) < MaxViews
        /\ views' = views \cup {view}
        /\ last' = Call("useLocalStorage", "local", key, default_value, Undefined,
                        key \in DOMAIN store[Storage("local")], view, "")
        /\ UNCHANGED <<store, origin>>

\* A faulty get trap: the property of the target is read.
proxyGetResult_target(view, prop) ==
    IF prop = "value" THEN view.target.value ELSE Undefined

\* The get trap of the proxy: what reading view[prop] gives.
proxyGetResult(view, prop) ==
    getResult(getItem(store[Storage(CodecOf(view))], view.key), view.default_value)

\* The set trap of the proxy returns false: the target after the
\* assignment view[prop] = value, which strict code sees throw.
proxySetTarget(view, prop, value) == view.target

proxyGet(view, prop) ==
    /\ view \in views
    /\ last' = Call("proxy.get", CodecOf(view), view.key, Undefined,
                    proxyGetResult(view, prop),
                    view.key \in DOMAIN store[Storage(CodecOf(view))], view, prop)
    /\ UNCHANGED <<store, origin, views>>

proxySet(view, prop, value) ==
    /\ view \in views
    /\ views' = (views \ {view})
                \cup {[view EXCEPT !.target = proxySetTarget(view, prop, value)]}
    /\ last' = Call("proxy.set", CodecOf(view), view.key, value, Throw("TypeError"),
                    view.key \in DOMAIN store[Storage(CodecOf(view))], view, prop)
    /\ UNCHANGED <<store, origin>>

\* setter( new_value ) of a binding.
setter(view, new_value) ==
    LET c == CodecOf(view)
        storage == store[Storage(c)]
    IN  /\ view \in views
        /\ view.key \in DOMAIN storage \/ ItemCount < MaxItems
        /\ store' = [store EXCEPT ![Storage(c)] = setItem(storage, view.key, encode(new_value))]
        /\ origin' = [origin EXCEPT ![Storage(c)][view.key] = Written("set", new_value)]
        /\ last' = Call("setter", c, view.key, new_value, Undefined,
                        view.key \in DOMAIN storage, view, "")
        /\ UNCHANGED views

\* remove() of a binding.
remover(view) ==
    LET c == CodecOf(view)
        storage == store[Storage(c)]
    IN  /\ view \in views
        /\ store' = [store EXCEPT ![Storage(c)] = removeItem(storage, view.key)]
        /\ origin' = [origin EXCEPT ![Storage(c)][view.key] =
                          Written("removed", Bool(view.key \in DOMAIN storage))]
        /\ last' = Call("remover", c, view.key, Undefined, Undefined,
                        view.key \in DOMAIN storage, view, "")
        /\ UNCHANGED views

\* The values written through and beside a binding.
ViewValues == {Num(0), Str("a"), RegExpOf("[\\u{61}-b]", "u")}

ViewDefaults == {Undefined, Str("D")}

\* The key the bindings are made for.
ViewKeys == {"k1"}

NextViews ==
    \/ \E key \in ViewKeys, d \in ViewDefaults : useSessionStorage(key, d)
    \/ \E key \in ViewKeys, d \in ViewDefaults : useLocalStorage(key, d)
    \/ \E view \in views, prop \in Props : proxyGet(view, prop)
    \/ \E view \in views, prop \in Props, v \in ViewValues : proxySet(view, prop, v)
    \/ \E view \in views, v \in ViewValues : setter(view, v)
    \/ \E view \in views : remover(view)
    \/ \E c \in Codecs, key \in ViewKeys, v \in ViewValues : set(c, key, v, MaxItems)
    \/ \E c \in Codecs, key \in ViewKeys : remove(c, key)

SpecViews == Init /\ [][NextViews]_vars

---------------------------------------------------------------------------
(* The properties *)

\* The backend each exported instance is meant to work on.
BoundBackend(codec) ==
    IF codec = "session" THEN "window.sessionStorage" ELSE "window.localStorage"

\* What the backend reports now for the slot of a call.
ItemOf(call) == getItem(store[BoundBackend(call.codec)], call.key)

\* The last write to the slot of a call.
OriginOf(call) == origin[BoundBackend(call.codec)][call.key]

KnownTags ==
    {"__date__", "__expr__", "__numb__", "__bool__", "__strn__", "__objt__"}

\* C1: has( k ) is true iff the backend holds a slot for k: true after
\* set( k, v ), false after remove( k ) and for a key never set.
ExistenceLaw == last.op = "has" => last.result = Bool(ItemOf(last) /= Null)

\* C2: get( k, D ) returns D for a key never set and for a key removed,
\* whatever was set before; remove( k ) raises nothing and leaves k absent,
\* also when k was absent already.
AbsenceLaw ==
    /\ (last.op = "get" /\ OriginOf(last).w \in {"never", "removed"})
           => last.result = last.arg
    /\ last.op = "remove" => (last.result = Undefined /\ ItemOf(last) = Null)

\* A get with a default, of a key whose set value was removed.
AbsenceWitness ==
    /\ last.op = "get" /\ last.arg = Str("D") /\ last.result = Str("D")
    /\ OriginOf(last) = Written("removed", Bool(TRUE))

\* C3: after set( k, f ) with f falsy (0, NaN, false, "", null, undefined),
\* get( k, D ) returns D.
MaskingLaw ==
    (last.op = "get" /\ OriginOf(last).w = "set" /\ OriginOf(last).v \in FalsyValues)
        => last.result = last.arg

\* set( 'n', 0 ) then get( 'n', -1 ) has returned -1.
MaskingWitness ==
    /\ last.op = "get" /\ last.arg = Num(-1) /\ last.result = Num(-1)
    /\ OriginOf(last) = Written("set", Num(0))

\* What a round trip of v is to give: v itself, a pattern without its flags.
RoundTripOf(v) == IF v.t = "regexp" THEN RegExpOf(v.source, "") ELSE v

\* C4: after set( k, v ) with v a truthy number, boolean or string, a
\* pattern, an array or an object, get( k, D ) returns a value of the same
\* kind equal to v (a pattern: with the same source and no flags).
RoundTrip ==
    (/\ last.op = "get" /\ OriginOf(last).w = "set"
     /\ OriginOf(last).v \in TruthyValues
     /\ OriginOf(last).v.t \in {"number", "boolean", "string", "regexp", "array", "object"})
        => last.result = RoundTripOf(OriginOf(last).v)

\* C5: after set( k, d ) with d a valid Date, get( k ) returns a Date of
\* the same instant, to the millisecond.
DateRoundTrip ==
    (/\ last.op = "get" /\ OriginOf(last).w = "set"
     /\ OriginOf(last).v.t = "date" /\ OriginOf(last).v.valid)
        => last.result = OriginOf(last).v

\* A stored string of at least 10 characters with the given tag.
HasTag(item, tag) ==
    item.t = "string" /\ Len(item.s) >= 10 /\ substring(item.s, 0, 8) = tag

\* An __objt__ record whose payload is no JSON text.
BadObjt(item) ==
    HasTag(item, "__objt__") /\ IsThrow(JSONparse(substringFrom(item.s, 9)))

\* An __expr__ record whose payload is no pattern when read without flags.
BadExpr(item) ==
    HasTag(item, "__expr__") /\ ~RegExpSyntaxOK(substringFrom(item.s, 9), FALSE)

TagKinds(tag) ==
    CASE tag = "__date__" -> {"date"}
      [] tag = "__expr__" -> {"regexp", "throw"}
      [] tag = "__numb__" -> {"number"}
      [] tag = "__bool__" -> {"boolean"}
      [] tag = "__strn__" -> {"string"}
      [] tag = "__objt__" ->
            {"null", "boolean", "number", "string", "array", "object", "throw"}

\* C7: get( k, D ) returns D for a missing key and for every stored string
\* shorter than 10 characters; a record of exactly 10 characters with a
\* known tag is decoded by its tag, not treated as absent.
ShortValue ==
    last.op = "get" =>
        LET item == ItemOf(last)
        IN  /\ (item = Null \/ Len(item.s) < 10) => last.result = last.arg
            /\ (item /= Null /\ Len(item.s) = 10 /\ substring(item.s, 0, 8) \in KnownTags)
                   => /\ decode(item).t \in TagKinds(substring(item.s, 0, 8))
                      /\ last.result =
                             IF IsThrow(decode(item)) \/ Truthy(decode(item))
                             THEN decode(item) ELSE last.arg

\* A get of a 9-character record (a tag, the separator, no payload) has
\* returned the default.
ShortValueWitness ==
    /\ last.op = "get" /\ ItemOf(last) = Str("__date__|")
    /\ last.arg = Str("D") /\ last.result = Str("D")

\* C8: for a stored string of at least 10 characters that starts with none
\* of the six tags, get( k, D ) returns the whole string.
UnrecognizedTag ==
    LET item == ItemOf(last)
    IN  (/\ last.op = "get" /\ item /= Null /\ Len(item.s) >= 10
         /\ substring(item.s, 0, 8) \notin KnownTags)
            => last.result = item

\* A get of a string with an unknown tag has returned it whole.
UnrecognizedTagWitness ==
    /\ last.op = "get" /\ ItemOf(last) = Str("__NUMB__|5")
    /\ last.arg = Str("D") /\ last.result = Str("__NUMB__|5")

\* C9: has and get change no slot; set( k, v ) and remove( k ) change slot
\* k of the instance's own backend and nothing else; after a set the slot
\* holds the encoding of the value just set, whatever it held before, and
\* get( k, D ) is decided by the last set or remove of k.
FrameAndLastWriteWins ==
    [][LET call == last'
           own  == BoundBackend(call.codec)
       IN  /\ call.op \in {"has", "get"} => store' = store
           /\ call.op \in {"set", "remove"} =>
                  \A b \in Backends, k \in Keys :
                      (b /= own \/ k /= call.key)
                          => getItem(store'[b], k) = getItem(store[b], k)
           /\ call.op = "set" =>
                  getItem(store'[own], call.key) = Str(JSToString(encode(call.arg)))
           /\ call.op = "remove" => getItem(store'[own], call.key) = Null
           /\ call.op = "get" =>
                  call.result =
                      IF origin[own][call.key].w = "set"
                      THEN getResult(Str(JSToString(encode(origin[own][call.key].v))),
                                     call.arg)
                      ELSE call.arg
      ]_vars

\* A set has overwritten a slot while the other key of the same backend
\* and a key of the other backend were held.
FrameWitness ==
    /\ last.op = "set" /\ last.had /\ last.codec = "session" /\ last.key = "k1"
    /\ "k2" \in DOMAIN store["window.sessionStorage"]
    /\ "k1" \in DOMAIN store["window.localStorage"]

\* The backend the closures of a use function work on.
ViewBackend(view) ==
    IF view.by = "useSessionStorage" THEN "window.sessionStorage"
    ELSE "window.localStorage"

\* C10: a read of any property of a view returns what get( key, D ) of the
\* bound codec returns in the current backend state; setter( v ) changes
\* the backend as set( key, v ) does and remover() as remove( key ) does;
\* an assignment to a property of a view changes no slot and no view.
LiveView ==
    [][LET call == last'
           own  == ViewBackend(call.view)
       IN  /\ call.op = "proxy.get" =>
                  /\ call.result =
                         getResult(getItem(store'[own], call.view.key),
                                   call.view.default_value)
                  /\ store' = store
           /\ call.op = "setter" =>
                  store' = [store EXCEPT
                               ![own] = setItem(store[own], call.view.key,
                                                encode(call.arg))]
           /\ call.op = "remover" =>
                  store' = [store EXCEPT
                               ![own] = removeItem(store[own], call.view.key)]
           /\ call.op = "proxy.set" => (store' = store /\ views' = views)
      ]_vars

\* A property other than value has been read from a view and gave the
\* stored value, not the default.
LiveViewWitness ==
    /\ last.op = "proxy.get" /\ last.prop = "other"
    /\ last.view.default_value = Str("D") /\ last.result = Str("a")

===========================================================================
